---- MODULE Spec2Model ----
(***************************************************************************)
(* Hot-spot cache of the placement driver (server/statistics).            *)
(*                                                                         *)
(* HotSpotCache holds one hotPeerCache per flow kind.  A region heartbeat  *)
(* is handled by CheckWrite / CheckRead, which return candidate           *)
(* HotPeerStat items, and by Update, which applies one item to the cache. *)
(*                                                                         *)
(* Time is counted in whole seconds.  time.Since reads Go's monotonic     *)
(* clock when the stamp of the stored stat carries a monotonic reading,   *)
(* and then the interval between two evaluations is positive: Spec and    *)
(* the other specifications let at least one second pass before every     *)
(* Check.  A stamp without such a reading is compared on the wall clock,  *)
(* which can be set back: SpecRegress lets a Check read an earlier time.  *)
(***************************************************************************)
EXTENDS Integers, Sequences, FiniteSets, TLC

VARIABLES
    writeFlow,   \* HotSpotCache.writeFlow : hotPeerCache
    readFlow,    \* HotSpotCache.readFlow  : hotPeerCache
    rolling,     \* heap of RollingStats objects: id -> window
    Denoising,   \* the package-level flag
    now,         \* the monotonic clock, in seconds
    pc,          \* "idle", or "checked" while the items of a Check are pending
    region,      \* the RegionInfo of the heartbeat being handled
    stats,       \* the StoresStats passed to the Check
    ret,         \* the items returned by the Check
    applied,     \* the stores whose item has been passed to Update
    before,      \* the cache and the heap as they were when the Check was called
    streak       \* history: per (kind, store, region) the hot degree at the
                 \* last hot evaluation and the cold evaluations applied since

vars == <<writeFlow, readFlow, rolling, Denoising, now, pc, region, stats,
          ret, applied, before, streak>>

----------------------------------------------------------------------------
(* Bounds of the model *)

NumStores == 2
NumRegions == 2
MaxTime == 4

\* the clock's bound where a single peer is followed through a longer run
MaxCoolTime == 10

\* the clock's bound where the rates and thresholds are followed
MaxRateTime == 7

\* capacity of a peer store; the source sets 1000 (hot_peer_cache.go:12),
\* scaled down so that a Put can find the store full
cacheMaxLen == 1

Stores == 1 .. NumStores
Regions == 1 .. NumRegions
Delays == {1, 3}

----------------------------------------------------------------------------
(* Program constants *)

hotPeerMaxCount == 400
rollingWindowsSize == 5
hotWriteRegionMinFlowRate == 16 * 1024
hotReadRegionMinFlowRate == 128 * 1024
hotRegionReportMinInterval == 3
hotRegionAntiCount == 1
RegionHeartBeatReportInterval == 60
storeStatCacheMaxLen == 200

WriteFlow == "WriteFlow"
ReadFlow == "ReadFlow"
FlowKinds == {WriteFlow, ReadFlow}

\* a nil *HotPeerStat
NoStat == [nil |-> TRUE]

\* a nil *RollingStats
NoRolling == 0

\* the store id of a nil leader (the protobuf getter of a nil peer)
NoLeader == 0

----------------------------------------------------------------------------
(* Inputs *)

\* bytes reported by a heartbeat: far below every threshold, and exactly the
\* read threshold at the nominal interval
ColdFlow == 1024
HotFlow == 60 * 128 * 1024
BytesFlows == {ColdFlow, HotFlow}
KeysFlows == {600}
Versions == {1}

\* a heartbeat carries the counters of both kinds; the inputs set the
\* counters of the kind that is being checked
RegionInfo(kind, id, peers, leader, bytes, keys, version) ==
    [id |-> id, peers |-> peers, leader |-> leader, version |-> version,
     bytesWritten |-> IF kind = WriteFlow THEN bytes ELSE 0,
     keysWritten |-> IF kind = WriteFlow THEN keys ELSE 0,
     bytesRead |-> IF kind = ReadFlow THEN bytes ELSE 0,
     keysRead |-> IF kind = ReadFlow THEN keys ELSE 0]

\* the leader is one of the peers, or the region has none
Leaders(peers) == peers \cup {NoLeader}

\* Region 1 reports every shape of heartbeat that its kind of cache tells
\* apart: the write cache reads the peers, the read cache the leader.  The
\* other regions report a busy region led by store 1: what it takes to crowd
\* a peer store.
Heartbeats(kind) ==
    { RegionInfo(kind, 1, peers, leader, bytes, keys, version) :
        peers \in IF kind = WriteFlow THEN (SUBSET Stores) \ {{}} ELSE {Stores},
        leader \in IF kind = WriteFlow THEN {NoLeader, 1} ELSE Stores \cup {NoLeader},
        bytes \in BytesFlows, keys \in KeysFlows, version \in Versions }
    \cup
    { RegionInfo(kind, id, {1}, 1, HotFlow, keys, version) :
        id \in Regions \ {1}, keys \in KeysFlows, version \in Versions }

WellFormed(r) == r.leader \in Leaders(r.peers)

\* StoresStats: store id -> bytes rates; a store may be missing
BusyRate == 400 * 1024 * 1024
StoresStatsSet ==
    { <<>>,
      [s \in {1} |-> [write |-> BusyRate, read |-> BusyRate]] }

NoRegion == [id |-> 0]
NoStats == <<>>

----------------------------------------------------------------------------
(* Sequences and sets *)

Range(s) == { s[i] : i \in 1 .. Len(s) }
Without(s, k) == SelectSeq(s, LAMBDA x : x # k)
Min(S) == CHOOSE x \in S : \A y \in S : x <= y

\* uint64(float64(a) / float64(b)) for 0 <= a < 2^53 and b > 0
Rate(flow, interval) == flow \div interval

----------------------------------------------------------------------------
(* RollingStats: the last `size` samples *)

NewRollingStats(size) == [size |-> size, records |-> <<>>]

RollingAdd(w, x) ==
    IF Len(w.records) < w.size
    THEN [w EXCEPT !.records = Append(@, x)]
    ELSE [w EXCEPT !.records = Append(Tail(@), x)]

\* the address of a newly allocated object: one that nothing refers to
NewAddr(heap) == Min({ i \in 1 .. Cardinality(DOMAIN heap) + 1 : i \notin DOMAIN heap })

----------------------------------------------------------------------------
(* cache.Cache, two-queue policy: a new key enters the recent queue, a key *)
(* put again moves to the frequent queue, a full cache evicts the oldest   *)
(* recent key first                                                        *)

NewCache(size) == [size |-> size, recent |-> <<>>, frequent |-> <<>>, value |-> <<>>]

CacheKeys(c) == Range(c.recent) \cup Range(c.frequent)
CacheLen(c) == Len(c.recent) + Len(c.frequent)
CachePeek(c, k) == IF k \in CacheKeys(c) THEN c.value[k] ELSE NoStat
CacheElems(c) == { c.value[k] : k \in CacheKeys(c) }

CacheRemove(c, k) ==
    [c EXCEPT !.recent = Without(@, k),
              !.frequent = Without(@, k),
              !.value = [x \in (DOMAIN @) \ {k} |-> @[x]]]

CacheVictim(c) == IF Len(c.recent) > 0 THEN Head(c.recent) ELSE Head(c.frequent)

CachePut(c, k, v) ==
    IF k \in Range(c.frequent)
    THEN [c EXCEPT !.frequent = Append(Without(@, k), k),
                   !.value = (k :> v) @@ @]
    ELSE IF k \in Range(c.recent)
    THEN [c EXCEPT !.recent = Without(@, k),
                   !.frequent = Append(@, k),
                   !.value = (k :> v) @@ @]
    ELSE LET room == IF CacheLen(c) >= c.size THEN CacheRemove(c, CacheVictim(c)) ELSE c
         IN [room EXCEPT !.recent = Append(@, k),
                         !.value = (k :> v) @@ @]

----------------------------------------------------------------------------
(* hotPeerCache *)

NewHotStoresStats(kind) ==
    [kind |-> kind, peersOfStore |-> <<>>, storesOfRegion |-> <<>>]

getBytesFlow(f, r) ==
    IF f.kind = WriteFlow THEN r.bytesWritten
    ELSE IF f.kind = ReadFlow THEN r.bytesRead
    ELSE 0

getKeysFlow(f, r) ==
    IF f.kind = WriteFlow THEN r.keysWritten
    ELSE IF f.kind = ReadFlow THEN r.keysRead
    ELSE 0

getOldHotPeerStat(f, regionID, storeID) ==
    IF storeID \in DOMAIN f.peersOfStore
    THEN CachePeek(f.peersOfStore[storeID], regionID)
    ELSE NoStat

\* region.GetStorePeer(storeID) == nil
NoStorePeer(r, storeID) == storeID \notin r.peers

\* isRegionExpired that asks for the peer whatever the kind
isRegionExpired_PeerOnly(f, r, storeID) == NoStorePeer(r, storeID)

\* isRegionExpired that takes a region without a leader as led by every store
isRegionExpired_NilLeader(f, r, storeID) ==
    IF f.kind = WriteFlow THEN NoStorePeer(r, storeID)
    ELSE IF f.kind = ReadFlow THEN r.leader # NoLeader /\ r.leader # storeID
    ELSE FALSE

isRegionExpired(f, r, storeID) ==
    IF f.kind = WriteFlow THEN NoStorePeer(r, storeID)
    ELSE IF f.kind = ReadFlow THEN r.leader # storeID
    ELSE FALSE

\* StoresStats.GetStoreBytesRate: zero for a store it does not know
GetStoreBytesRate(st, storeID) ==
    IF storeID \in DOMAIN st THEN st[storeID] ELSE [write |-> 0, read |-> 0]

calculateWriteHotThresholdWithStore(st, storeID) ==
    LET hotRegionThreshold == Rate(GetStoreBytesRate(st, storeID).write, hotPeerMaxCount)
    IN IF hotRegionThreshold < hotWriteRegionMinFlowRate
       THEN hotWriteRegionMinFlowRate
       ELSE hotRegionThreshold

\* calculateReadHotThresholdWithStore with the floor of the write kind
calculateReadHotThresholdWithStore_WriteFloor(st, storeID) ==
    LET hotRegionThreshold == Rate(GetStoreBytesRate(st, storeID).read, hotPeerMaxCount)
    IN IF hotRegionThreshold < hotWriteRegionMinFlowRate
       THEN hotWriteRegionMinFlowRate
       ELSE hotRegionThreshold

calculateReadHotThresholdWithStore(st, storeID) ==
    LET hotRegionThreshold == Rate(GetStoreBytesRate(st, storeID).read, hotPeerMaxCount)
    IN IF hotRegionThreshold < hotReadRegionMinFlowRate
       THEN hotReadRegionMinFlowRate
       ELSE hotRegionThreshold

\* the threshold functions of the older hot_cache.go
calculateWriteHotThresholdWithStoreOlder(st, storeID) ==
    LET hotRegionThreshold == Rate(GetStoreBytesRate(st, storeID).write, storeStatCacheMaxLen * 2)
    IN IF hotRegionThreshold < hotWriteRegionMinFlowRate
       THEN hotWriteRegionMinFlowRate
       ELSE hotRegionThreshold

calculateReadHotThresholdWithStoreOlder(st, storeID) ==
    LET hotRegionThreshold == Rate(GetStoreBytesRate(st, storeID).read, storeStatCacheMaxLen * 2)
    IN IF hotRegionThreshold < hotReadRegionMinFlowRate
       THEN hotReadRegionMinFlowRate
       ELSE hotRegionThreshold

calcHotThreshold(f, st, storeID) ==
    IF f.kind = WriteFlow THEN calculateWriteHotThresholdWithStore(st, storeID)
    ELSE IF f.kind = ReadFlow THEN calculateReadHotThresholdWithStore(st, storeID)
    ELSE 0

\* getAllStoreIDs without the stores seen before
getAllStoreIDs_NewOnly(f, r) ==
    { s \in r.peers : ~(f.kind = ReadFlow /\ s # r.leader) }

getAllStoreIDs(f, r) ==
    LET old == IF r.id \in DOMAIN f.storesOfRegion THEN f.storesOfRegion[r.id] ELSE {}
        new == { s \in r.peers : ~(f.kind = ReadFlow /\ s # r.leader) }
    IN old \cup new

\* HotItem without the increment of the degree
HotItem_NoIncrement(newItem, oldItem) ==
    [newItem EXCEPT !.RollingBytesRate = oldItem.RollingBytesRate,
                    !.HotDegree = oldItem.HotDegree,
                    !.AntiCount = hotRegionAntiCount]

\* the branch for an item at or above the threshold that has a predecessor
HotItem(newItem, oldItem) ==
    [newItem EXCEPT !.RollingBytesRate = oldItem.RollingBytesRate,
                    !.HotDegree = oldItem.HotDegree + 1,
                    !.AntiCount = hotRegionAntiCount]

\* ColdItem that takes two off the degree
ColdItem_TwoDown(newItem, oldItem) ==
    [newItem EXCEPT !.RollingBytesRate = oldItem.RollingBytesRate,
                    !.HotDegree = oldItem.HotDegree - 2,
                    !.AntiCount = oldItem.AntiCount - 1,
                    !.needDelete = (oldItem.AntiCount - 1 < 0)]

\* ColdItem that forgets to mark the item once its anti-count is used up
ColdItem_NoDelete(newItem, oldItem) ==
    [newItem EXCEPT !.RollingBytesRate = oldItem.RollingBytesRate,
                    !.HotDegree = oldItem.HotDegree - 1,
                    !.AntiCount = oldItem.AntiCount - 1]

\* ColdItem that forgets to count the anti-count down
ColdItem_KeepAnti(newItem, oldItem) ==
    [newItem EXCEPT !.RollingBytesRate = oldItem.RollingBytesRate,
                    !.HotDegree = oldItem.HotDegree - 1,
                    !.AntiCount = oldItem.AntiCount,
                    !.needDelete = (oldItem.AntiCount < 0)]

\* the branch for an item below the threshold that has a predecessor
ColdItem(newItem, oldItem) ==
    [newItem EXCEPT !.RollingBytesRate = oldItem.RollingBytesRate,
                    !.HotDegree = oldItem.HotDegree - 1,
                    !.AntiCount = oldItem.AntiCount - 1,
                    !.needDelete = (oldItem.AntiCount - 1 < 0)]

\* FirstItem that hands out one window to every new item
FirstItem_SharedWindow(newItem, w) ==
    [newItem EXCEPT !.RollingBytesRate = 1,
                    !.AntiCount = hotRegionAntiCount,
                    !.isNew = TRUE]

\* FirstItem that does not mark the item as new
FirstItem_NotNew(newItem, w) ==
    [newItem EXCEPT !.RollingBytesRate = w,
                    !.AntiCount = hotRegionAntiCount]

\* the branch for an item at or above the threshold that has no predecessor
FirstItem(newItem, w) ==
    [newItem EXCEPT !.RollingBytesRate = w,
                    !.AntiCount = hotRegionAntiCount,
                    !.isNew = TRUE]

\* The result is the returned item (NoStat for nil) and the heap, which the
\* Add through the item's window pointer changes.
updateHotPeerStat(newItem, oldItem, bytesRate, hotThreshold, heap) ==
    LET isHot == bytesRate >= hotThreshold IN
    IF newItem.needDelete
    THEN [item |-> newItem, heap |-> heap]
    ELSE IF oldItem # NoStat
    THEN LET item == IF isHot THEN HotItem(newItem, oldItem) ELSE ColdItem(newItem, oldItem)
         IN [item |-> item,
             heap |-> [heap EXCEPT ![item.RollingBytesRate] = RollingAdd(@, bytesRate)]]
    ELSE IF ~isHot
    THEN [item |-> NoStat, heap |-> heap]
    ELSE LET w == NewAddr(heap)
         IN [item |-> FirstItem(newItem, w),
             heap |-> [(w :> NewRollingStats(rollingWindowsSize)) @@ heap
                          EXCEPT ![w] = RollingAdd(@, bytesRate)]]

\* ReportTooFast whose limit is one second short
ReportTooFast_OneShort(f, r, storeID, t) ==
    LET oldItem == getOldHotPeerStat(f, r.id, storeID) IN
    /\ oldItem # NoStat
    /\ Denoising
    /\ t - oldItem.LastUpdateTime < hotRegionReportMinInterval - 1
    /\ ~isRegionExpired(f, r, storeID)

\* ReportTooFast that does not ask for the flag
ReportTooFast_FlagIgnored(f, r, storeID, t) ==
    LET oldItem == getOldHotPeerStat(f, r.id, storeID) IN
    /\ oldItem # NoStat
    /\ t - oldItem.LastUpdateTime < hotRegionReportMinInterval
    /\ ~isRegionExpired(f, r, storeID)

\* ReportTooFast that compares the interval with the wrong constant
ReportTooFast_WrongLimit(f, r, storeID, t) ==
    LET oldItem == getOldHotPeerStat(f, r.id, storeID) IN
    /\ oldItem # NoStat
    /\ Denoising
    /\ t - oldItem.LastUpdateTime < hotRegionAntiCount
    /\ ~isRegionExpired(f, r, storeID)

\* the `continue` of the loop: an item of this store was updated too recently
ReportTooFast(f, r, storeID, t) ==
    LET oldItem == getOldHotPeerStat(f, r.id, storeID) IN
    /\ oldItem # NoStat
    /\ Denoising
    /\ t - oldItem.LastUpdateTime < hotRegionReportMinInterval
    /\ ~isRegionExpired(f, r, storeID)

\* CheckStore that always takes the nominal interval
CheckStore_NominalOnly(f, r, st, storeID, t, heap) ==
    LET bytesFlow == getBytesFlow(f, r)
        keysFlow == getKeysFlow(f, r)
        isExpired == isRegionExpired(f, r, storeID)
        oldItem == getOldHotPeerStat(f, r.id, storeID)
        denoise == FALSE
        interval == t - oldItem.LastUpdateTime
        bytesPerSec == IF denoise THEN Rate(bytesFlow, interval)
                       ELSE Rate(bytesFlow, RegionHeartBeatReportInterval)
        keysPerSec == IF denoise THEN Rate(keysFlow, interval)
                      ELSE Rate(keysFlow, RegionHeartBeatReportInterval)
        newItem == [StoreID |-> storeID,
                    RegionID |-> r.id,
                    Kind |-> f.kind,
                    BytesRate |-> bytesPerSec,
                    KeysRate |-> keysPerSec,
                    RollingBytesRate |-> NoRolling,
                    HotDegree |-> 0,
                    AntiCount |-> 0,
                    Version |-> r.version,
                    LastUpdateTime |-> t,
                    needDelete |-> isExpired,
                    isLeader |-> (r.leader = storeID),
                    isNew |-> FALSE]
        hotThreshold == calcHotThreshold(f, st, storeID)
    IN updateHotPeerStat(newItem, oldItem, bytesPerSec, hotThreshold, heap)

\* one iteration of the loop of CheckRegionFlow, for a store it does not skip
CheckStore(f, r, st, storeID, t, heap) ==
    LET bytesFlow == getBytesFlow(f, r)
        keysFlow == getKeysFlow(f, r)
        isExpired == isRegionExpired(f, r, storeID)
        oldItem == getOldHotPeerStat(f, r.id, storeID)
        denoise == oldItem # NoStat /\ Denoising
        interval == t - oldItem.LastUpdateTime
        bytesPerSec == IF denoise THEN Rate(bytesFlow, interval)
                       ELSE Rate(bytesFlow, RegionHeartBeatReportInterval)
        keysPerSec == IF denoise THEN Rate(keysFlow, interval)
                      ELSE Rate(keysFlow, RegionHeartBeatReportInterval)
        newItem == [StoreID |-> storeID,
                    RegionID |-> r.id,
                    Kind |-> f.kind,
                    BytesRate |-> bytesPerSec,
                    KeysRate |-> keysPerSec,
                    RollingBytesRate |-> NoRolling,
                    HotDegree |-> 0,
                    AntiCount |-> 0,
                    Version |-> r.version,
                    LastUpdateTime |-> t,
                    needDelete |-> isExpired,
                    isLeader |-> (r.leader = storeID),
                    isNew |-> FALSE]
        hotThreshold == calcHotThreshold(f, st, storeID)
    IN updateHotPeerStat(newItem, oldItem, bytesPerSec, hotThreshold, heap)

\* the loop over storeIDs; the stores are independent of one another, so the
\* order of the map iteration does not show in the result
RECURSIVE CheckStores(_, _, _, _, _, _, _)
CheckStores(f, r, st, todo, t, heap, items) ==
    IF todo = {}
    THEN [ret |-> items, heap |-> heap]
    ELSE LET storeID == Min(todo) IN
         IF ReportTooFast(f, r, storeID, t)
         THEN CheckStores(f, r, st, todo \ {storeID}, t, heap, items)
         ELSE LET res == CheckStore(f, r, st, storeID, t, heap) IN
              CheckStores(f, r, st, todo \ {storeID}, t, res.heap,
                          IF res.item = NoStat THEN items ELSE items \cup {res.item})

CheckRegionFlow(f, r, st, t, heap) ==
    CheckStores(f, r, st, getAllStoreIDs(f, r), t, heap, {})

\* RemoveItem that leaves the store in stores_of_region
RemoveItem_KeepEdge(f, item) ==
    [f EXCEPT
       !.peersOfStore =
           IF item.StoreID \in DOMAIN @
           THEN [@ EXCEPT ![item.StoreID] = CacheRemove(@, item.RegionID)]
           ELSE @]

\* hotPeerCache.Update, the branch of an item that needs deleting
RemoveItem(f, item) ==
    [f EXCEPT
       !.peersOfStore =
           IF item.StoreID \in DOMAIN @
           THEN [@ EXCEPT ![item.StoreID] = CacheRemove(@, item.RegionID)]
           ELSE @,
       !.storesOfRegion =
           IF item.RegionID \in DOMAIN @
           THEN [@ EXCEPT ![item.RegionID] = @ \ {item.StoreID}]
           ELSE @]

\* PutItem that does not record the store in stores_of_region
PutItem_NoEdge(f, item) ==
    LET peers == IF item.StoreID \in DOMAIN f.peersOfStore
                 THEN f.peersOfStore[item.StoreID]
                 ELSE NewCache(cacheMaxLen)
    IN [f EXCEPT
          !.peersOfStore = (item.StoreID :> CachePut(peers, item.RegionID, item)) @@ @]

\* PutItem that makes the peer store of a new store one entry too large
PutItem_Oversized(f, item) ==
    LET peers == IF item.StoreID \in DOMAIN f.peersOfStore
                 THEN f.peersOfStore[item.StoreID]
                 ELSE NewCache(cacheMaxLen + 1)
        stores == IF item.RegionID \in DOMAIN f.storesOfRegion
                  THEN f.storesOfRegion[item.RegionID]
                  ELSE {}
    IN [f EXCEPT
          !.peersOfStore = (item.StoreID :> CachePut(peers, item.RegionID, item)) @@ @,
          !.storesOfRegion = (item.RegionID :> (stores \cup {item.StoreID})) @@ @]

\* hotPeerCache.Update, the branch of an item to keep
PutItem(f, item) ==
    LET peers == IF item.StoreID \in DOMAIN f.peersOfStore
                 THEN f.peersOfStore[item.StoreID]
                 ELSE NewCache(cacheMaxLen)
        stores == IF item.RegionID \in DOMAIN f.storesOfRegion
                  THEN f.storesOfRegion[item.RegionID]
                  ELSE {}
    IN [f EXCEPT
          !.peersOfStore = (item.StoreID :> CachePut(peers, item.RegionID, item)) @@ @,
          !.storesOfRegion = (item.RegionID :> (stores \cup {item.StoreID})) @@ @]

\* hotPeerCache.Update: the cache after the item is applied
UpdateCache(f, item) ==
    IF item.needDelete THEN RemoveItem(f, item) ELSE PutItem(f, item)

----------------------------------------------------------------------------
(* The state *)

Flow(kind) == IF kind = WriteFlow THEN writeFlow ELSE readFlow

\* the items a hotPeerCache holds
StoredStats(f) ==
    UNION { CacheElems(f.peersOfStore[s]) : s \in DOMAIN f.peersOfStore }
Holds(f, s, r) ==
    s \in DOMAIN f.peersOfStore /\ r \in CacheKeys(f.peersOfStore[s])
HasEdge(f, s, r) ==
    r \in DOMAIN f.storesOfRegion /\ s \in f.storesOfRegion[r]

\* the windows something still refers to; the rest is garbage
LiveWindows(wf, rf, items) ==
    { x.RollingBytesRate : x \in StoredStats(wf) \cup StoredStats(rf) \cup items } \ {NoRolling}
Collect(heap, wf, rf, items) ==
    [w \in (DOMAIN heap) \cap LiveWindows(wf, rf, items) |-> heap[w]]

NoStreak == [H |-> 0, k |-> -1]
StreakKeys == FlowKinds \X Stores \X Regions

\* history of an Update: a hot evaluation starts a streak, a cold one extends
\* it, a removal (by the item or by eviction) ends it
StreakAfter(f2, item) ==
    [x \in StreakKeys |->
        IF x[1] # item.Kind THEN streak[x]
        ELSE IF ~Holds(f2, x[2], x[3]) THEN NoStreak
        ELSE IF <<x[2], x[3]>> # <<item.StoreID, item.RegionID>> THEN streak[x]
        ELSE IF item.BytesRate >= calcHotThreshold(f2, stats, item.StoreID)
        THEN [H |-> item.HotDegree, k |-> 0]
        ELSE [streak[x] EXCEPT !.k = @ + 1]]

\* isRegionHotWithPeer that asks for more than the degree
isRegionHotWithPeer_Strict(f, r, peer, hotDegree) ==
    IF peer = NoLeader THEN FALSE
    ELSE IF peer \in DOMAIN f.peersOfStore
    THEN LET stat == CachePeek(f.peersOfStore[peer], r.id)
         IN stat # NoStat /\ stat.HotDegree > hotDegree
    ELSE FALSE

\* a peer is given by its store; NoLeader stands for the nil peer
isRegionHotWithPeer(f, r, peer, hotDegree) ==
    IF peer = NoLeader THEN FALSE
    ELSE IF peer \in DOMAIN f.peersOfStore
    THEN LET stat == CachePeek(f.peersOfStore[peer], r.id)
         IN stat # NoStat /\ stat.HotDegree >= hotDegree
    ELSE FALSE

isRegionHotWithAnyPeers(f, r, hotDegree) ==
    \E peer \in r.peers : isRegionHotWithPeer(f, r, peer, hotDegree)

\* hotPeerCache.IsRegionHot
PeerCacheIsRegionHot(f, r, hotDegree) ==
    IF f.kind = WriteFlow THEN isRegionHotWithAnyPeers(f, r, hotDegree)
    ELSE IF f.kind = ReadFlow THEN isRegionHotWithPeer(f, r, r.leader, hotDegree)
    ELSE FALSE

\* HotSpotCache.IsRegionHot
IsRegionHot(r, hotDegree) ==
    PeerCacheIsRegionHot(writeFlow, r, hotDegree) \/ PeerCacheIsRegionHot(readFlow, r, hotDegree)

\* HotSpotCache.IsRegionHot of the older hot_cache.go
IsRegionHotOlder(r, hotThreshold) ==
    IF isRegionHotWithAnyPeers(writeFlow, r, hotThreshold) THEN TRUE
    ELSE isRegionHotWithPeer(readFlow, r, r.leader, hotThreshold)

\* a new HotSpotCache, with the package's flag as given
Start(flag) ==
    /\ writeFlow = NewHotStoresStats(WriteFlow)
    /\ readFlow = NewHotStoresStats(ReadFlow)
    /\ rolling = <<>>
    /\ Denoising = flag
    /\ now = 0
    /\ pc = "idle"
    /\ region = NoRegion
    /\ stats = NoStats
    /\ ret = {}
    /\ applied = {}
    /\ before = <<>>
    /\ streak = [x \in StreakKeys |-> NoStreak]

\* the flag is true unless a simulator or a test turns it off
Init == Start(TRUE)

Check(kind, r, st, d) ==
    /\ pc = "idle"
    /\ now' = now + d
    /\ LET res == CheckRegionFlow(Flow(kind), r, st, now + d, rolling) IN
         /\ ret' = res.ret
         /\ rolling' = res.heap
    /\ region' = r
    /\ stats' = st
    /\ applied' = {}
    /\ before' = [flow |-> Flow(kind), rolling |-> rolling]
    /\ pc' = "checked"
    /\ UNCHANGED <<writeFlow, readFlow, Denoising, streak>>

CheckWrite(r, st, d) == Check(WriteFlow, r, st, d)

CheckRead(r, st, d) == Check(ReadFlow, r, st, d)

\* HotSpotCache.Update of one of the returned items.  The items of one Check
\* belong to different stores and touch different entries, so they are
\* applied in the order of their stores.
Update(item) ==
    /\ pc = "checked"
    /\ item \in ret
    /\ item.StoreID \notin applied
    /\ \A other \in ret : other.StoreID \notin applied => item.StoreID <= other.StoreID
    /\ LET f2 == UpdateCache(Flow(item.Kind), item)
           wf == IF item.Kind = WriteFlow THEN f2 ELSE writeFlow
           rf == IF item.Kind = ReadFlow THEN f2 ELSE readFlow
       IN /\ writeFlow' = wf
          /\ readFlow' = rf
          /\ rolling' = Collect(rolling, wf, rf, ret)
          /\ streak' = StreakAfter(f2, item)
    /\ applied' = applied \cup {item.StoreID}
    /\ UNCHANGED <<Denoising, now, pc, region, stats, ret, before>>

\* The caller is done with the heartbeat and drops the items it holds: after
\* it has applied all of them, or none (a dry run).
Done ==
    /\ pc = "checked"
    /\ applied \in {{}, { item.StoreID : item \in ret }}
    /\ pc' = "idle"
    /\ region' = NoRegion
    /\ stats' = NoStats
    /\ ret' = {}
    /\ applied' = {}
    /\ before' = <<>>
    /\ rolling' = Collect(rolling, writeFlow, readFlow, {})
    /\ UNCHANGED <<writeFlow, readFlow, Denoising, now, streak>>

\* The two caches are separate objects that share nothing but the clock.  A
\* run checks heartbeats of either kind until one cache holds a stat, and of
\* that kind from then on.
Next ==
    \/ \E st \in StoresStatsSet, d \in Delays :
          \E r \in Heartbeats(WriteFlow) :
             /\ now + d <= MaxTime
             /\ WellFormed(r)
             /\ StoredStats(readFlow) = {}
             /\ CheckWrite(r, st, d)
    \/ \E st \in StoresStatsSet, d \in Delays :
          \E r \in Heartbeats(ReadFlow) :
             /\ now + d <= MaxTime
             /\ WellFormed(r)
             /\ StoredStats(writeFlow) = {}
             /\ CheckRead(r, st, d)
    \/ \E item \in ret : Update(item)
    \/ Done

Spec == Init /\ [][Next]_vars

\* A longer run of heartbeats of region 1 alone, whose peer is on store 1
\* (and which, for the read cache, may lose its leader): the life of one peer
\* from its first hot report to its removal.
CoolingHeartbeats(kind) ==
    { r \in Heartbeats(kind) :
        /\ r.id = 1
        /\ WellFormed(r)
        /\ IF kind = WriteFlow THEN r.peers = {1} /\ r.leader = 1
                               ELSE r.leader \in {1, NoLeader} }

NextCooling ==
    \/ \E st \in StoresStatsSet, d \in Delays :
          \E r \in CoolingHeartbeats(WriteFlow) :
             /\ now + d <= MaxCoolTime
             /\ StoredStats(readFlow) = {}
             /\ CheckWrite(r, st, d)
    \/ \E st \in StoresStatsSet, d \in Delays :
          \E r \in CoolingHeartbeats(ReadFlow) :
             /\ now + d <= MaxCoolTime
             /\ StoredStats(writeFlow) = {}
             /\ CheckRead(r, st, d)
    \/ \E item \in ret : Update(item)
    \/ Done

SpecCooling == Init /\ [][NextCooling]_vars

\* Busy heartbeats of a region whose peers stay on every store, checked by a
\* clock that may be set back between two of them.  No peer of such a
\* heartbeat is expired, so no rate is computed from an interval below
\* hotRegionReportMinInterval.
RegressDelays == {-1, 1, 3}

RegressHeartbeats ==
    { r \in Heartbeats(WriteFlow) :
        r.id = 1 /\ r.peers = Stores /\ r.leader = 1 /\ r.bytesWritten = HotFlow }

NextRegress ==
    \/ \E st \in {NoStats}, d \in RegressDelays :
          \E r \in RegressHeartbeats :
             /\ now + d \in 0 .. MaxTime
             /\ CheckWrite(r, st, d)
    \/ \E item \in ret : Update(item)
    \/ Done

SpecRegress == Init /\ [][NextRegress]_vars

\* The same clock under heartbeats of the region that are busy or quiet, so
\* that stats also cool down and are born again while the clock is behind.
BackwardHeartbeats ==
    { r \in Heartbeats(WriteFlow) : r.id = 1 /\ r.peers = Stores /\ r.leader = 1 }

NextBackward ==
    \/ \E st \in {NoStats}, d \in RegressDelays :
          \E r \in BackwardHeartbeats :
             /\ now + d \in 0 .. MaxTime
             /\ CheckWrite(r, st, d)
    \/ \E item \in ret : Update(item)
    \/ Done

SpecBackward == Init /\ [][NextBackward]_vars

\* Heartbeats of one peer, with counters and store rates at the edges of the
\* thresholds: the rate of the nominal interval one below, at and one above
\* the floor of the kind, and stores whose share of one four-hundredth is
\* zero, rounds down to the floor, or is one above it.
MinFlowRate(kind) ==
    IF kind = WriteFlow THEN hotWriteRegionMinFlowRate ELSE hotReadRegionMinFlowRate

RateBytes(kind) ==
    { ColdFlow,
      RegionHeartBeatReportInterval * MinFlowRate(kind) - 1,
      RegionHeartBeatReportInterval * MinFlowRate(kind),
      RegionHeartBeatReportInterval * (MinFlowRate(kind) + 1) }

RateKeys == {0, 601}

RateHeartbeats(kind) ==
    { RegionInfo(kind, 1, {1}, 1, bytes, keys, 1) :
        bytes \in RateBytes(kind), keys \in RateKeys }

RateStatsSet ==
    { <<>>,
      [s \in {1} |-> [write |-> 0, read |-> 0]],
      [s \in {1} |-> [write |-> hotPeerMaxCount * hotWriteRegionMinFlowRate + 399,
                      read |-> hotPeerMaxCount * hotReadRegionMinFlowRate + 399]],
      [s \in {1} |-> [write |-> hotPeerMaxCount * (hotWriteRegionMinFlowRate + 1),
                      read |-> hotPeerMaxCount * (hotReadRegionMinFlowRate + 1)]] }

NextRates ==
    \/ \E st \in RateStatsSet, d \in Delays :
          \E r \in RateHeartbeats(WriteFlow) :
             /\ now + d <= MaxRateTime
             /\ StoredStats(readFlow) = {}
             /\ CheckWrite(r, st, d)
    \/ \E st \in RateStatsSet, d \in Delays :
          \E r \in RateHeartbeats(ReadFlow) :
             /\ now + d <= MaxRateTime
             /\ StoredStats(writeFlow) = {}
             /\ CheckRead(r, st, d)
    \/ \E item \in ret : Update(item)
    \/ Done

SpecRates == Init /\ [][NextRates]_vars

\* Busy heartbeats of region 1 of both kinds in one run, so that both caches
\* hold stats of the region at once: written on store 1 or on stores 1 and 2,
\* read on either of them.
BothHeartbeats(kind) ==
    { r \in Heartbeats(kind) :
        /\ r.id = 1 /\ WellFormed(r) /\ getBytesFlow(Flow(kind), r) = HotFlow
        /\ r.leader \in {1, 2}
        /\ kind = WriteFlow => r.peers \in {{1}, {1, 2}} }

NextBoth ==
    \/ \E st \in {NoStats}, d \in Delays :
          \E r \in BothHeartbeats(WriteFlow) :
             /\ now + d <= MaxTime
             /\ CheckWrite(r, st, d)
    \/ \E st \in {NoStats}, d \in Delays :
          \E r \in BothHeartbeats(ReadFlow) :
             /\ now + d <= MaxTime
             /\ CheckRead(r, st, d)
    \/ \E item \in ret : Update(item)
    \/ Done

SpecBoth == Init /\ [][NextBoth]_vars

\* The heartbeats of the longer run with the flag turned off, as the
\* simulator and the tests do.
SpecNoDenoising == Start(FALSE) /\ [][NextCooling]_vars

----------------------------------------------------------------------------
(* Properties *)

\* the cache the pending Check was called on, and what it was called with
CheckedKind == before.flow.kind
OldStat(s) == getOldHotPeerStat(before.flow, region.id, s)
ItemsOf(s) == { item \in ret : item.StoreID = s }
Threshold(kind, s) ==
    LET bytes == IF s \in DOMAIN stats THEN stats[s] ELSE [write |-> 0, read |-> 0]
        floor == IF kind = WriteFlow THEN 16 * 1024 ELSE 128 * 1024
        share == (IF kind = WriteFlow THEN bytes.write ELSE bytes.read) \div 400
    IN IF share > floor THEN share ELSE floor

\* the peer of the heartbeat on store s is gone (Write), or s does not lead (Read)
Gone(s) ==
    \/ CheckedKind = WriteFlow /\ s \notin region.peers
    \/ CheckedKind = ReadFlow /\ region.leader # s
StaleEdge(f, s, r) == HasEdge(f, s, r) /\ ~Holds(f, s, r)

\* C1: whenever peers_of_store[s] holds an entry for region r, s is a member
\* of stores_of_region[r], in both flow caches, evictions included.
C1_PeersHaveEdge ==
    \A kind \in FlowKinds, s \in Stores, r \in Regions :
        Holds(Flow(kind), s, r) => HasEdge(Flow(kind), s, r)

\* C1 witness: a store holds an entry after one of its entries was evicted.
C1_Witness ==
    \E kind \in FlowKinds, s \in Stores, r \in Regions, r2 \in Regions :
        /\ Holds(Flow(kind), s, r)
        /\ StaleEdge(Flow(kind), s, r2)
        /\ pc = "checked" /\ s \in applied

FlowAfter(kind) == IF kind = WriteFlow THEN writeFlow' ELSE readFlow'

\* C2 as claimed: whenever s is a member of stores_of_region[r],
\* peers_of_store[s] holds an entry for r.
C2_EdgesHavePeers ==
    \A kind \in FlowKinds, s \in Stores, r \in Regions :
        HasEdge(Flow(kind), s, r) => Holds(Flow(kind), s, r)

\* C2 as amended: a store comes to be a member of stores_of_region[r] without
\* an entry for r only in an Update that puts another region into the store's
\* full peer store and evicts r; no other step separates the two indexes.
C2_StaleOnlyByEviction ==
    [][\A kind \in FlowKinds, s \in Stores, r \in Regions :
          (StaleEdge(FlowAfter(kind), s, r) /\ ~StaleEdge(Flow(kind), s, r)) =>
             /\ Holds(Flow(kind), s, r)
             /\ CacheLen(Flow(kind).peersOfStore[s]) >= cacheMaxLen
             /\ \E item \in ret :
                   /\ item.Kind = kind /\ item.StoreID = s /\ item.RegionID # r
                   /\ ~item.needDelete
                   /\ s \notin applied /\ s \in applied']_vars

\* C2 witness: an entry has been evicted and its reverse edge is left behind.
C2_Witness ==
    \E kind \in FlowKinds, s \in Stores, r \in Regions :
        /\ StaleEdge(Flow(kind), s, r)
        /\ CacheLen(Flow(kind).peersOfStore[s]) = cacheMaxLen

\* C3: every stored stat has anti_count >= 0 and need_delete = false; an item
\* that needs deleting, or whose anti_count is below 0, is not stored.
C3_StoredLive ==
    \A kind \in FlowKinds : \A stat \in StoredStats(Flow(kind)) :
        stat.AntiCount >= 0 /\ ~stat.needDelete

\* C3 witness: an item whose anti_count fell below 0 has been passed to Update.
C3_Witness ==
    /\ pc = "checked"
    /\ \E item \in ret :
          item.AntiCount < 0 /\ item.needDelete /\ item.StoreID \in applied

\* C4: every stat stored in the read cache has is_leader = true, and every
\* read item for a store that does not lead the region needs deleting.
C4_ReadLeader ==
    /\ \A stat \in StoredStats(readFlow) : stat.isLeader
    /\ (pc = "checked" /\ CheckedKind = ReadFlow) =>
          \A item \in ret : region.leader # item.StoreID => item.needDelete

\* C4 witness: after a change of leader the item of the former leader has been
\* applied and the read cache holds the stat of the new one.
C4_Witness ==
    /\ pc = "checked" /\ CheckedKind = ReadFlow
    /\ \E item \in ret :
          item.needDelete /\ ~item.isLeader /\ item.StoreID \in applied
    /\ \E stat \in StoredStats(readFlow) : stat.RegionID = region.id

StreakOf(kind, s, r) == streak[<<kind, s, r>>]

\* what both readings of the cooling law share: a stored stat that has seen k
\* cold heartbeats since a hot one at degree H has hot_degree H - k and
\* anti_count ANTI_COUNT - k >= 0, and the next cold heartbeat, at least
\* MIN_REPORT_INTERVAL later, yields degree H - (k + 1) and is a tombstone
\* exactly when it is the last-th cold one.
CoolingLaw(last(_)) ==
    /\ \A kind \in FlowKinds, s \in Stores, r \in Regions :
          Holds(Flow(kind), s, r) =>
             LET stat == getOldHotPeerStat(Flow(kind), r, s)
                 h == StreakOf(kind, s, r)
             IN /\ h.k >= 0
                /\ stat.HotDegree = h.H - h.k
                /\ stat.AntiCount = hotRegionAntiCount - h.k
                /\ stat.AntiCount >= 0
    /\ pc = "checked" =>
          \A s \in Stores \ applied : \A item \in ItemsOf(s) :
             LET old == OldStat(s)
                 h == StreakOf(CheckedKind, s, region.id)
             IN (/\ old # NoStat
                 /\ ~Gone(s)
                 /\ now - old.LastUpdateTime >= hotRegionReportMinInterval
                 /\ item.BytesRate < Threshold(CheckedKind, s)) =>
                    /\ item.HotDegree = h.H - (h.k + 1)
                    /\ item.needDelete <=> (h.k + 1 = last(h.H))

LastAsClaimed(H) == H + hotRegionAntiCount + 1
LastAsAmended(H) == hotRegionAntiCount + 1

\* C5 as claimed: cooling from degree H, the stat is tombstoned on exactly the
\* (H + ANTI_COUNT + 1)-th cold heartbeat.
C5_CoolingAsClaimed == CoolingLaw(LastAsClaimed)

\* C5 as amended: cooling from degree H, k <= ANTI_COUNT cold heartbeats yield
\* hot_degree H - k and anti_count ANTI_COUNT - k, and the stat is tombstoned
\* on exactly the (ANTI_COUNT + 1)-th cold heartbeat, whatever H is.
C5_Cooling == CoolingLaw(LastAsAmended)

\* C5 witness: a stat that was hot at degree 1 or more is tombstoned by a cold
\* heartbeat.
C5_Witness ==
    /\ pc = "checked"
    /\ \E item \in ret :
          /\ item.needDelete /\ item.AntiCount < 0
          /\ item.StoreID \notin applied
          /\ StreakOf(CheckedKind, item.StoreID, region.id).H >= 1
          /\ now - OldStat(item.StoreID).LastUpdateTime >= hotRegionReportMinInterval

\* C6: when Check finds a stat old for (s, r), the peer is not expired, at
\* least MIN_REPORT_INTERVAL has passed since old.last_update_time and the
\* bytes rate of the item is at or above the threshold of s, then Check emits
\* one item for s, with hot_degree = old.hot_degree + 1, anti_count =
\* ANTI_COUNT, is_new = false and need_delete = false.
C6_Promotion ==
    pc = "checked" =>
       \A s \in Stores :
          LET old == OldStat(s) IN
          (/\ old # NoStat
           /\ ~Gone(s)
           /\ now - old.LastUpdateTime >= 3) =>
              /\ Cardinality(ItemsOf(s)) = 1
              /\ \A item \in ItemsOf(s) :
                    item.BytesRate >= Threshold(CheckedKind, s) =>
                       /\ item.HotDegree = old.HotDegree + 1
                       /\ item.AntiCount = 1
                       /\ ~item.isNew
                       /\ ~item.needDelete

\* C6 witness: a stat of degree 1 or more is promoted once more.
C6_Witness ==
    /\ pc = "checked"
    /\ \E s \in Stores : \E item \in ItemsOf(s) :
          /\ OldStat(s) # NoStat
          /\ ~Gone(s)
          /\ now - OldStat(s).LastUpdateTime >= 3
          /\ item.BytesRate >= Threshold(CheckedKind, s)
          /\ item.HotDegree >= 1

\* C7: when a stat is stored for (s, r) and the heartbeat of r has no peer on
\* s (Write) or a leader elsewhere (Read), Check emits an item for s that
\* needs deleting, however recent the stat and whatever the rate, and once
\* that item is applied neither index holds (s, r).
C7_Expiry ==
    pc = "checked" =>
       \A s \in Stores :
          (OldStat(s) # NoStat /\ Gone(s)) =>
             /\ ItemsOf(s) # {}
             /\ \A item \in ItemsOf(s) : item.needDelete
             /\ s \in applied =>
                   /\ ~Holds(Flow(CheckedKind), s, region.id)
                   /\ ~HasEdge(Flow(CheckedKind), s, region.id)

\* C7 witness: with denoising on, a stat updated less than MIN_REPORT_INTERVAL
\* ago is expired by a busy heartbeat, and its item has been applied.
C7_Witness ==
    /\ pc = "checked" /\ Denoising
    /\ \E s \in applied :
          /\ OldStat(s) # NoStat
          /\ Gone(s)
          /\ now - OldStat(s).LastUpdateTime < 3
          /\ getBytesFlow(before.flow, region) = HotFlow

\* C8: with denoising on, when the stat of a peer that is not expired was
\* updated less than MIN_REPORT_INTERVAL (3 s) ago, Check emits no item for
\* its store.
C8_Suppression ==
    (pc = "checked" /\ Denoising) =>
       \A s \in Stores :
          LET old == OldStat(s) IN
          (old # NoStat /\ ~Gone(s) /\ now - old.LastUpdateTime < 3) =>
             ItemsOf(s) = {}

\* C8 witness: a busy heartbeat arrives less than 3 s after the stat of one of
\* its peers was updated, while another of its stores does get an item.
C8_Witness ==
    /\ pc = "checked" /\ Denoising
    /\ getBytesFlow(before.flow, region) = HotFlow
    /\ ret # {}
    /\ \E s \in Stores :
          /\ OldStat(s) # NoStat
          /\ ~Gone(s)
          /\ now - OldStat(s).LastUpdateTime < 3

\* the cache and every window of a stored stat are as they were before the
\* pending Check
Untouched ==
    /\ Flow(CheckedKind) = before.flow
    /\ \A stat \in StoredStats(before.flow) :
          rolling[stat.RollingBytesRate] = before.rolling[stat.RollingBytesRate]

\* C9: a Check none of whose items has been passed to Update leaves
\* peers_of_store, stores_of_region and every stored stat, the samples of its
\* rolling window included, as they were.
C9_DryRun ==
    (pc = "checked" /\ applied = {}) => Untouched

\* C10 as claimed: Check of the read cache on a region without a leader
\* returns no item and changes nothing.
C10_NoLeaderEmpty ==
    (pc = "checked" /\ CheckedKind = ReadFlow /\ region.leader = NoLeader) =>
       /\ ret = {}
       /\ applied = {} => Untouched

\* C10 as amended: Check of the read cache on a region without a leader
\* changes nothing and returns one item that needs deleting for each store
\* recorded in stores_of_region for the region, and nothing else.
C10_NoLeaderTombstones ==
    (pc = "checked" /\ CheckedKind = ReadFlow /\ region.leader = NoLeader) =>
       /\ \A item \in ret : item.needDelete
       /\ \A s \in Stores :
             Cardinality(ItemsOf(s)) = IF HasEdge(before.flow, s, region.id) THEN 1 ELSE 0
       /\ applied = {} => Untouched

\* C10 witness: the read cache holds a stat of the region when the heartbeat
\* without a leader is checked.
C10_Witness ==
    /\ pc = "checked" /\ CheckedKind = ReadFlow /\ region.leader = NoLeader
    /\ applied = {}
    /\ \E s \in Stores : OldStat(s) # NoStat /\ ItemsOf(s) # {}

\* the counters of the pending heartbeat at the nominal interval
NominalBytesRate == getBytesFlow(before.flow, region) \div 60
NominalKeysRate == getKeysFlow(before.flow, region) \div 60

StoreRate(kind, s) ==
    IF s \notin DOMAIN stats THEN 0
    ELSE IF kind = WriteFlow THEN stats[s].write ELSE stats[s].read
ThresholdNewer(kind, s) ==
    IF kind = WriteFlow THEN calculateWriteHotThresholdWithStore(stats, s)
    ELSE calculateReadHotThresholdWithStore(stats, s)
ThresholdOlder(kind, s) ==
    IF kind = WriteFlow THEN calculateWriteHotThresholdWithStoreOlder(stats, s)
    ELSE calculateReadHotThresholdWithStoreOlder(stats, s)

\* C12: the hot threshold of a store is max(floor(rate / 400), 16 KiB/s) for
\* Write and max(floor(rate / 400), 128 KiB/s) for Read, in the newer and in
\* the older source; it is never below the floor of its kind and equals it
\* for a store whose rate is 0 or that StoresStats does not know; and a peer
\* is taken as hot exactly when its bytes rate is at or above the threshold.
C12_Threshold ==
    pc = "checked" =>
       \A s \in Stores :
          LET limit == Threshold(CheckedKind, s)
              floor == IF CheckedKind = WriteFlow THEN 16 * 1024 ELSE 128 * 1024
              old == OldStat(s)
          IN /\ calcHotThreshold(before.flow, stats, s) = limit
             /\ ThresholdNewer(CheckedKind, s) = limit
             /\ ThresholdOlder(CheckedKind, s) = limit
             /\ limit >= floor
             /\ StoreRate(CheckedKind, s) = 0 => limit = floor
             /\ ~Gone(s) =>
                   /\ \A item \in ItemsOf(s) :
                         IF old = NoStat THEN item.BytesRate >= limit
                         ELSE (item.HotDegree = old.HotDegree + 1) <=> (item.BytesRate >= limit)
                   /\ (old = NoStat /\ ItemsOf(s) = {}) => NominalBytesRate < limit

\* C12 witness: the share of a store is above the floor, and a peer whose
\* rate is exactly that share is taken as hot.
C12_Witness ==
    /\ pc = "checked"
    /\ \E s \in Stores : \E item \in ItemsOf(s) :
          /\ s \in DOMAIN stats
          /\ Threshold(CheckedKind, s) > MinFlowRate(CheckedKind)
          /\ item.BytesRate = Threshold(CheckedKind, s)
          /\ ~item.needDelete

\* the peer store of s was full, without an entry for the region of the
\* pending heartbeat, when its Check was called
FullBefore(s) ==
    /\ s \in DOMAIN before.flow.peersOfStore
    /\ CacheLen(before.flow.peersOfStore[s]) >= cacheMaxLen
    /\ ~Holds(before.flow, s, region.id)

\* C13: no peer store ever holds more than its capacity of entries, and a Put
\* into a full peer store evicts one of its entries instead of growing it.
C13_Capacity ==
    /\ \A kind \in FlowKinds : \A s \in DOMAIN Flow(kind).peersOfStore :
          CacheLen(Flow(kind).peersOfStore[s]) <= cacheMaxLen
    /\ pc = "checked" =>
          \A s \in applied : \A item \in ItemsOf(s) :
             (FullBefore(s) /\ ~item.needDelete) =>
                LET was == CacheKeys(before.flow.peersOfStore[s])
                    is == CacheKeys(Flow(CheckedKind).peersOfStore[s])
                IN /\ region.id \in is
                   /\ Cardinality(is) = cacheMaxLen
                   /\ Cardinality(was \ is) = 1

\* C13 witness: an item has been put into a peer store that was full.
C13_Witness ==
    /\ pc = "checked"
    /\ \E s \in applied : \E item \in ItemsOf(s) :
          /\ FullBefore(s)
          /\ ~item.needDelete
          /\ Holds(Flow(CheckedKind), s, region.id)

\* the regions and degrees IsRegionHot is asked about
HotQueries ==
    { RegionInfo(WriteFlow, 1, peers, leader, 0, 0, 1) :
        peers \in (SUBSET Stores) \ {{}}, leader \in Stores \cup {NoLeader} }
HotDegrees == 0 .. 2

HotOn(f, s, r, d) ==
    \E stat \in StoredStats(f) :
       stat.StoreID = s /\ stat.RegionID = r.id /\ stat.HotDegree >= d

\* C14: IsRegionHot(region, d) is true exactly when the write cache holds a
\* stat of degree d or more for the region on the store of one of its
\* current peers, or the region has a leader and the read cache holds such a
\* stat on the leader's store; stats on other stores do not count.  The older
\* IsRegionHot gives the same answer.
C14_IsRegionHot ==
    \A r \in HotQueries, d \in HotDegrees :
       /\ IsRegionHot(r, d) <=>
             \/ \E s \in r.peers : HotOn(writeFlow, s, r, d)
             \/ r.leader # NoLeader /\ HotOn(readFlow, r.leader, r, d)
       /\ IsRegionHotOlder(r, d) <=> IsRegionHot(r, d)

\* C14 witness: both caches hold a stat of the region, the write cache one of
\* degree 1, and a region whose peers and leader are on other stores is not hot.
C14_Witness ==
    \E r \in HotQueries : \E s \in Stores \ r.peers, l \in Stores \ {r.leader} :
       /\ HotOn(writeFlow, s, r, 1)
       /\ HotOn(readFlow, l, r, 0)
       /\ ~IsRegionHot(r, 0)

\* C15: with the flag off, Check emits an item for every stored stat whose
\* peer is not expired, however soon after the previous heartbeat, and every
\* emitted item has bytes_rate = floor(bytes_flow / 60) and keys_rate =
\* floor(keys_flow / 60), whatever the last_update_time of the stat.
C15_NoDenoising ==
    (pc = "checked" /\ ~Denoising) =>
       /\ \A s \in Stores :
             (OldStat(s) # NoStat /\ ~Gone(s)) => Cardinality(ItemsOf(s)) = 1
       /\ \A item \in ret :
             /\ item.BytesRate = NominalBytesRate
             /\ item.KeysRate = NominalKeysRate

\* C15 witness: with the flag off, a heartbeat one second after the stat's
\* last update gets an item for a peer that is not expired.
C15_Witness ==
    /\ pc = "checked" /\ ~Denoising
    /\ \E s \in Stores :
          /\ OldStat(s) # NoStat
          /\ ~Gone(s)
          /\ now - OldStat(s).LastUpdateTime = 1
          /\ ItemsOf(s) # {}

\* every item of the pending Check has been passed to Update
AllApplied == pc = "checked" /\ applied = { item.StoreID : item \in ret }

\* C16: when an eviction has left a store in stores_of_region[r] without an
\* entry for r, the next Check of r with all its items applied leaves every
\* store of stores_of_region[r] with an entry for r.
C16_SelfHealing ==
    (AllApplied /\ \E s \in Stores : StaleEdge(before.flow, s, region.id)) =>
       \A s \in Stores :
          HasEdge(Flow(CheckedKind), s, region.id) => Holds(Flow(CheckedKind), s, region.id)

\* C17: the item that Check emits for a stored stat whose peer is expired
\* carries the hot_degree and the anti_count of the stored stat, with
\* is_new = false and need_delete = true.
C17_ExpiredInherits ==
    pc = "checked" =>
       \A s \in Stores :
          LET old == OldStat(s) IN
          (old # NoStat /\ Gone(s)) =>
             \A item \in ItemsOf(s) :
                /\ item.HotDegree = old.HotDegree
                /\ item.AntiCount = old.AntiCount
                /\ ~item.isNew
                /\ item.needDelete

\* C18: no region is mapped to an empty set of stores in stores_of_region:
\* Update of an item that needs deleting drops the entry of the region when
\* it removes its last store.
C18_NoEmptyStoreSet ==
    \A kind \in FlowKinds : \A r \in DOMAIN Flow(kind).storesOfRegion :
       Flow(kind).storesOfRegion[r] # {}

\* no stat is stored for the peer of the pending heartbeat on store s, and
\* the peer is not expired
Unborn(s) == OldStat(s) = NoStat /\ ~Gone(s)

\* the window of the item holds the item's rate and nothing else, and
\* neither a stat stored when Check was called nor another item refers to it
FreshWindow(item) ==
    /\ item.RollingBytesRate \in DOMAIN rolling
    /\ rolling[item.RollingBytesRate].records = <<item.BytesRate>>
    /\ \A stat \in StoredStats(before.flow) \cup (ret \ {item}) :
          stat.RollingBytesRate # item.RollingBytesRate

\* C19: for a peer that is not expired and has no stored stat, Check emits an
\* item exactly when the bytes rate of the heartbeat is at or above the
\* threshold of the store; the item has hot_degree 0, anti_count ANTI_COUNT
\* (1), is_new = true, need_delete = false and a new rolling window holding
\* the one sample; and a pair that enters a peer store does so by an item
\* whose rate is at or above the threshold.
C19_Birth ==
    pc = "checked" =>
       \A s \in Stores :
          /\ Unborn(s) =>
                /\ (ItemsOf(s) # {}) <=> (NominalBytesRate >= Threshold(CheckedKind, s))
                /\ \A item \in ItemsOf(s) :
                      /\ item.BytesRate = NominalBytesRate
                      /\ item.HotDegree = 0
                      /\ item.AntiCount = 1
                      /\ item.isNew
                      /\ ~item.needDelete
                      /\ FreshWindow(item)
          /\ (~Holds(before.flow, s, region.id) /\ Holds(Flow(CheckedKind), s, region.id)) =>
                \E item \in ItemsOf(s) : item.BytesRate >= Threshold(CheckedKind, s)

\* C19 witness: of two peers without a stat, the one on the busy store gets
\* no item, and the item of the other has been applied.
C19_Witness ==
    /\ pc = "checked"
    /\ \E s \in applied, other \in Stores :
          /\ Unborn(s) /\ ItemsOf(s) # {}
          /\ Unborn(other) /\ ItemsOf(other) = {}
          /\ Holds(Flow(CheckedKind), s, region.id)

\* C20: with denoising on, the item of a store without a stored stat has
\* bytes_rate = floor(bytes_flow / 60) and keys_rate = floor(keys_flow / 60);
\* the item of a store whose stat was updated interval >= MIN_REPORT_INTERVAL
\* seconds ago has bytes_rate = floor(bytes_flow / interval) and keys_rate =
\* floor(keys_flow / interval); and whether the item counts as hot is decided
\* by its bytes_rate against the threshold, whatever its keys_rate.
C20_Rates ==
    (pc = "checked" /\ Denoising) =>
       \A s \in Stores : \A item \in ItemsOf(s) :
          LET old == OldStat(s)
              bytes == getBytesFlow(before.flow, region)
              keys == getKeysFlow(before.flow, region)
              hot == item.BytesRate >= Threshold(CheckedKind, s)
          IN /\ old = NoStat =>
                   /\ item.BytesRate = bytes \div 60
                   /\ item.KeysRate = keys \div 60
             /\ (old # NoStat /\ now - old.LastUpdateTime >= 3) =>
                   /\ item.BytesRate = bytes \div (now - old.LastUpdateTime)
                   /\ item.KeysRate = keys \div (now - old.LastUpdateTime)
             /\ (old = NoStat /\ ~Gone(s)) => hot
             /\ (old # NoStat /\ ~Gone(s)) =>
                   item.HotDegree = old.HotDegree + (IF hot THEN 1 ELSE -1)

\* C20 witness: a stat was updated four or more seconds ago, the division of
\* the bytes by the interval leaves a remainder, and the item is below the
\* threshold although the heartbeat reports keys.
C20_Witness ==
    /\ pc = "checked" /\ Denoising
    /\ \E s \in Stores : \E item \in ItemsOf(s) :
          /\ OldStat(s) # NoStat
          /\ now - OldStat(s).LastUpdateTime >= 4
          /\ getBytesFlow(before.flow, region) % (now - OldStat(s).LastUpdateTime) # 0
          /\ item.KeysRate > 0
          /\ item.BytesRate < Threshold(CheckedKind, s)

\* C21: every stored stat has a rolling window with at least one sample, and
\* no two stats stored in the same flow cache, on different stores or for
\* different regions, refer to the same window.
C21_WindowOwnership ==
    \A kind \in FlowKinds :
       /\ \A stat \in StoredStats(Flow(kind)) :
             /\ stat.RollingBytesRate # NoRolling
             /\ stat.RollingBytesRate \in DOMAIN rolling
             /\ Len(rolling[stat.RollingBytesRate].records) >= 1
       /\ \A a \in StoredStats(Flow(kind)), b \in StoredStats(Flow(kind)) :
             (a.StoreID # b.StoreID \/ a.RegionID # b.RegionID) =>
                a.RollingBytesRate # b.RollingBytesRate

\* C21 witness: an Update has left two stats in one cache, one of them with
\* a window that has taken a second sample.
C21_Witness ==
    /\ pc = "checked" /\ applied # {}
    /\ \E kind \in FlowKinds : \E a \in StoredStats(Flow(kind)), b \in StoredStats(Flow(kind)) :
          /\ a # b
          /\ Len(rolling[a.RollingBytesRate].records) >= 2

C23_DegreeBound ==
    \A kind \in FlowKinds : \A stat \in StoredStats(Flow(kind)) :
       /\ stat.AntiCount \in {0, 1}
       /\ stat.HotDegree >= stat.AntiCount - 1

\* C23 witness: a stat that was stored with degree -1 has been brought back
\* to degree 0 and anti_count 1 by the Update of a busy heartbeat.
C23_Witness ==
    /\ pc = "checked"
    /\ \E s \in applied :
          /\ OldStat(s) # NoStat
          /\ OldStat(s).HotDegree = -1
          /\ \E stat \in StoredStats(Flow(CheckedKind)) :
                stat.StoreID = s /\ stat.AntiCount = 1 /\ stat.HotDegree = 0

====
